---- MODULE Spec2Model ----
(***************************************************************************)
(* Model of annotation/consume_trigger.go: the consuming annotation        *)
(* triggers, the ConsumeTrigger record, and the slice operations           *)
(* MergeConsumeTriggerSlices, ConsumeTriggerSliceAsGuarded and             *)
(* ConsumeTriggerSlicesEq.                                                 *)
(*                                                                         *)
(* A *ConsumeTrigger is a pointer: the model keeps every allocated record  *)
(* in `heap` and a pointer is an index into it.  A []*ConsumeTrigger is a  *)
(* sequence of such indices.                                               *)
(***************************************************************************)
EXTENDS Integers, Sequences, FiniteSets, TLC

\* ------------------------------------------------------------------ bounds
MaxLen == 2
MaxRecs == 3
MaxCalls == 2
NumKeys == 2

\* Opaque identities: guard nonces, consumed expressions, annotation keys.
Nonces == {1, 2}
Exprs == {"x", "y"}
Keys == 1..NumKeys
NumRetStmts == 2
RetStmts == 1..NumRetStmts

\* ------------------------------------------------- annotation keys and maps
\* A Key is an opaque site identity; NoKey is the nil Key.
NoKey == 0

\* An annotation Val: shallow and deep nilability bits.
Vals == [IsNilable : BOOLEAN, IsDeepNilable : BOOLEAN]

\* A Map entry: either no annotation for the key, or a Val.
Absent == [present |-> FALSE, IsNilable |-> FALSE, IsDeepNilable |-> FALSE]

Entries == {Absent} \cup {[present |-> TRUE, IsNilable |-> v.IsNilable,
                           IsDeepNilable |-> v.IsDeepNilable] : v \in Vals}

AnnMaps == [Keys -> Entries]

\* Key.Lookup(annMap): the Val and whether the key was found; a key that is
\* not found yields the zero Val.
Lookup(k, m) ==
    IF k \in DOMAIN m /\ m[k].present
    THEN [ann |-> [IsNilable |-> m[k].IsNilable, IsDeepNilable |-> m[k].IsDeepNilable],
          ok |-> TRUE]
    ELSE [ann |-> [IsNilable |-> FALSE, IsDeepNilable |-> FALSE], ok |-> FALSE]

\* ------------------------------------------------------------ trigger kinds
Always == "Always"
Conditional == "Conditional"
DeepConditional == "DeepConditional"

\* ------------------------------------------------- the three embedded bases
TriggerIfNonNil == "TriggerIfNonNil"
TriggerIfDeepNonNil == "TriggerIfDeepNonNil"
ConsumeTriggerTautology == "ConsumeTriggerTautology"

\* A ConsumingAnnotationTrigger value: its dynamic type (variant), the base
\* struct it embeds, the base's Ann key and the variant's own fields.  Go's ==
\* on two interface values compares the dynamic type and every field, which
\* is = on these records.
Trigger(variant, base, ann, named, ret) ==
    [variant |-> variant, base |-> base, Ann |-> ann,
     IsNamedReturn |-> named, RetStmt |-> ret]

NonNilVariants ==
    {"FldAssign", "ArgFldPass", "GlobalVarAssign", "ArgPass", "RecvPass",
     "InterfaceResultFromImplementation", "MethodParamFromInterface",
     "UseAsFldOfReturn", "VariadicParamAssignDeep", "FldEscape"}

ReturnVariants ==
    {"UseAsErrorResult", "UseAsReturn",
     "UseAsNonErrorRetDependentOnErrorRetNilability",
     "UseAsErrorRetWithNilabilityUnknown"}

DeepNonNilVariants ==
    {"SliceAssign", "ArrayAssign", "PtrAssign", "MapAssign", "ParamAssignDeep",
     "FuncRetAssignDeep", "FieldAssignDeep", "GlobalVarAssignDeep", "ChanSend"}

TautologyVariants ==
    {"PtrLoad", "MapAccess", "MapWrittenTo", "SliceAccess", "FldAccess",
     "DeepAssignPrimitive", "ChanAccess", "LocalVarAssignDeep"}

\* Every trigger value the variants can build over Keys and RetStmts.
Triggers ==
    {Trigger(v, TriggerIfNonNil, k, FALSE, 0) : v \in NonNilVariants, k \in Keys}
    \cup {Trigger(v, TriggerIfNonNil, k, n, r) :
            v \in ReturnVariants, k \in Keys, n \in BOOLEAN, r \in RetStmts}
    \cup {Trigger(v, TriggerIfDeepNonNil, k, FALSE, 0) : v \in DeepNonNilVariants, k \in Keys}
    \cup {Trigger(v, ConsumeTriggerTautology, NoKey, FALSE, 0) : v \in TautologyVariants}

ArgPass(k) == Trigger("ArgPass", TriggerIfNonNil, k, FALSE, 0)

VariadicParamAssignDeep(k) == Trigger("VariadicParamAssignDeep", TriggerIfNonNil, k, FALSE, 0)

\* TriggerIfNonNil.CheckConsume as it would be if it ignored whether the key
\* was found.
CheckConsumeIfNonNilIgnoreFound(t, annMap) ==
    LET r == Lookup(t.Ann, annMap) IN ~r.ann.IsNilable

\* TriggerIfDeepNonNil.CheckConsume as it would be if it read IsNilable.
CheckConsumeIfDeepNonNilShallow(t, annMap) ==
    LET r == Lookup(t.Ann, annMap) IN r.ok /\ ~r.ann.IsNilable

\* TriggerIfNonNil.CheckConsume
CheckConsumeIfNonNil(t, annMap) ==
    LET r == Lookup(t.Ann, annMap) IN r.ok /\ ~r.ann.IsNilable

\* TriggerIfDeepNonNil.CheckConsume
CheckConsumeIfDeepNonNil(t, annMap) ==
    LET r == Lookup(t.Ann, annMap) IN r.ok /\ ~r.ann.IsDeepNilable

\* ConsumeTriggerTautology.CheckConsume as it would be if it looked its key up.
CheckConsumeTautologyLookup(t, annMap) == Lookup(t.Ann, annMap).ok

\* ConsumeTriggerTautology.CheckConsume
CheckConsumeTautology(t, annMap) == TRUE

\* CheckConsume through the interface: the method promoted from the base the
\* variant embeds.
CheckConsume(t, annMap) ==
    CASE t.base = TriggerIfNonNil -> CheckConsumeIfNonNil(t, annMap)
      [] t.base = TriggerIfDeepNonNil -> CheckConsumeIfDeepNonNil(t, annMap)
      [] t.base = ConsumeTriggerTautology -> CheckConsumeTautology(t, annMap)

\* Kind through the interface.
Kind(t) ==
    CASE t.base = TriggerIfNonNil -> Conditional
      [] t.base = TriggerIfDeepNonNil -> DeepConditional
      [] t.base = ConsumeTriggerTautology -> Always

\* UnderlyingSite through the interface.
UnderlyingSite(t) ==
    IF t.base = ConsumeTriggerTautology THEN NoKey ELSE t.Ann

\* ---------------------------------------------------------------- positions
\* token.Pos values: NoPos, the position of an expression, the position of a
\* return statement.  A return statement starts before the expressions it
\* returns, so the two kinds never coincide.
NoPos == 0

ExprPos(e) == IF e = "x" THEN 10 ELSE 20

RetStmtPos(r) == 100 + r

\* The default customPos of the three embedded bases.
CustomPosDefault(t) == [pos |-> NoPos, ok |-> FALSE]

\* UseAsErrorResult.customPos
CustomPosUseAsErrorResult(t) ==
    IF t.IsNamedReturn THEN [pos |-> RetStmtPos(t.RetStmt), ok |-> TRUE]
    ELSE [pos |-> NoPos, ok |-> FALSE]

\* UseAsReturn.customPos
CustomPosUseAsReturn(t) ==
    IF t.IsNamedReturn THEN [pos |-> RetStmtPos(t.RetStmt), ok |-> TRUE]
    ELSE [pos |-> NoPos, ok |-> FALSE]

\* UseAsNonErrorRetDependentOnErrorRetNilability.customPos as it would be
\* if the variant kept the default of its base.
CustomPosUseAsNonErrorRetInherited(t) == [pos |-> NoPos, ok |-> FALSE]

\* UseAsNonErrorRetDependentOnErrorRetNilability.customPos
CustomPosUseAsNonErrorRet(t) ==
    IF t.IsNamedReturn THEN [pos |-> RetStmtPos(t.RetStmt), ok |-> TRUE]
    ELSE [pos |-> NoPos, ok |-> FALSE]

\* UseAsErrorRetWithNilabilityUnknown.customPos
CustomPosUseAsErrorRetUnknown(t) ==
    IF t.IsNamedReturn THEN [pos |-> RetStmtPos(t.RetStmt), ok |-> TRUE]
    ELSE [pos |-> NoPos, ok |-> FALSE]

\* customPos through the interface: the variant's own method where it has
\* one, the method promoted from its base otherwise.
CustomPos(t) ==
    CASE t.variant = "UseAsErrorResult" -> CustomPosUseAsErrorResult(t)
      [] t.variant = "UseAsReturn" -> CustomPosUseAsReturn(t)
      [] t.variant = "UseAsNonErrorRetDependentOnErrorRetNilability" -> CustomPosUseAsNonErrorRet(t)
      [] t.variant = "UseAsErrorRetWithNilabilityUnknown" -> CustomPosUseAsErrorRetUnknown(t)
      [] OTHER -> CustomPosDefault(t)

\* ------------------------------------------------------------ guard nonces
\* A util.GuardNonceSet is a reference to a mutable set of nonces: `gsets`
\* holds the content of every allocated set and a GuardNonceSet value is an
\* index into it.  A memory is a record [heap, gsets]; an operation that
\* allocates or writes returns the memory it leaves behind.
\* util.NoGuards(): a fresh empty set.
NoGuards(mem) ==
    [mem |-> [mem EXCEPT !.gsets = Append(@, {})], ref |-> Len(mem.gsets) + 1]

\* GuardNonceSet.Intersection: a fresh set holding the common nonces.
Intersection(mem, g1, g2) ==
    [mem |-> [mem EXCEPT !.gsets = Append(@, mem.gsets[g1] \cap mem.gsets[g2])],
     ref |-> Len(mem.gsets) + 1]

\* GuardNonceSet.Copy: a fresh set with the same content.
Copy(mem, g) ==
    [mem |-> [mem EXCEPT !.gsets = Append(@, mem.gsets[g])],
     ref |-> Len(mem.gsets) + 1]

\* GuardNonceSet.Add: inserts the nonces into the receiver and returns it.
Add(mem, g, nonces) ==
    [mem |-> [mem EXCEPT !.gsets[g] = @ \cup nonces], ref |-> g]

\* GuardNonceSet.Eq: equality of content.
GuardsEq(mem, g1, g2) == mem.gsets[g1] = mem.gsets[g2]

\* ----------------------------------------------------------- ConsumeTrigger
\* The struct: Guards is a GuardNonceSet reference.
ConsumeTrigger(annotation, expr, guardRef, matched) ==
    [Annotation |-> annotation, Expr |-> expr, Guards |-> guardRef,
     GuardMatched |-> matched]

\* &ConsumeTrigger{...}: allocates the record and returns the pointer to it.
New(mem, rec) ==
    [mem |-> [mem EXCEPT !.heap = Append(@, rec)], ref |-> Len(mem.heap) + 1]

\* Eq as it would be if it left GuardMatched out of the comparison.
EqNoMatched(mem, c, c2) ==
    /\ mem.heap[c].Annotation = mem.heap[c2].Annotation
    /\ mem.heap[c].Expr = mem.heap[c2].Expr
    /\ mem.gsets[mem.heap[c].Guards] = mem.gsets[mem.heap[c2].Guards]

\* ConsumeTrigger.Eq on two pointers c and c2.
Eq(mem, c, c2) ==
    /\ mem.heap[c].Annotation = mem.heap[c2].Annotation
    /\ mem.heap[c].Expr = mem.heap[c2].Expr
    /\ GuardsEq(mem, mem.heap[c].Guards, mem.heap[c2].Guards)
    /\ mem.heap[c].GuardMatched = mem.heap[c2].GuardMatched

\* ConsumeTrigger.Pos as it would be if it always took the custom position.
PosAlwaysCustom(mem, c) == CustomPos(mem.heap[c].Annotation).pos

\* ConsumeTrigger.Pos on the pointer c.
Pos(mem, c) ==
    LET r == CustomPos(mem.heap[c].Annotation)
    IN IF r.ok THEN r.pos ELSE ExprPos(mem.heap[c].Expr)

\* ------------------------------------------------ MergeConsumeTriggerSlices
\* addToOut as it would be if it united the guard sets of a matched pair.
AddToOutUnion(st, trigger) ==
    LET h == st.mem.heap
        hits == {i \in 1..Len(st.out) :
                    /\ h[st.out[i]].Annotation = h[trigger].Annotation
                    /\ h[st.out[i]].Expr = h[trigger].Expr}
    IN IF hits = {}
       THEN [st EXCEPT !.out = Append(@, trigger)]
       ELSE LET i == CHOOSE j \in hits : \A k \in hits : j <= k
                outTrigger == h[st.out[i]]
                c == Copy(st.mem, outTrigger.Guards)
                g == Add(c.mem, c.ref, st.mem.gsets[h[trigger].Guards])
                n == New(g.mem, ConsumeTrigger(outTrigger.Annotation, outTrigger.Expr, g.ref,
                                               outTrigger.GuardMatched /\ h[trigger].GuardMatched))
            IN [mem |-> n.mem, out |-> [st.out EXCEPT ![i] = n.ref]]

\* addToOut as it would be if it matched records on Annotation alone.
AddToOutAnnotationOnly(st, trigger) ==
    LET h == st.mem.heap
        hits == {i \in 1..Len(st.out) : h[st.out[i]].Annotation = h[trigger].Annotation}
    IN IF hits = {}
       THEN [st EXCEPT !.out = Append(@, trigger)]
       ELSE LET i == CHOOSE j \in hits : \A k \in hits : j <= k
                outTrigger == h[st.out[i]]
                g == Intersection(st.mem, outTrigger.Guards, h[trigger].Guards)
                n == New(g.mem, ConsumeTrigger(outTrigger.Annotation, outTrigger.Expr, g.ref,
                                               outTrigger.GuardMatched /\ h[trigger].GuardMatched))
            IN [mem |-> n.mem, out |-> [st.out EXCEPT ![i] = n.ref]]

\* addToOut as it would be if it wrote the intersection and the AND into the
\* matched record of out instead of building a new record.
AddToOutInPlace(st, trigger) ==
    LET h == st.mem.heap
        hits == {i \in 1..Len(st.out) :
                    /\ h[st.out[i]].Annotation = h[trigger].Annotation
                    /\ h[st.out[i]].Expr = h[trigger].Expr}
    IN IF hits = {}
       THEN [st EXCEPT !.out = Append(@, trigger)]
       ELSE LET i == CHOOSE j \in hits : \A k \in hits : j <= k
                outTrigger == h[st.out[i]]
                g == Intersection(st.mem, outTrigger.Guards, h[trigger].Guards)
            IN [st EXCEPT !.mem = [g.mem EXCEPT !.heap[st.out[i]] =
                                      ConsumeTrigger(outTrigger.Annotation, outTrigger.Expr, g.ref,
                                                     outTrigger.GuardMatched /\ h[trigger].GuardMatched)]]

\* addToOut as it would be if an unmatched record were rebuilt from its
\* Annotation, Expr and Guards instead of being appended as it is.
AddToOutRebuild(st, trigger) ==
    LET h == st.mem.heap
        hits == {i \in 1..Len(st.out) :
                    /\ h[st.out[i]].Annotation = h[trigger].Annotation
                    /\ h[st.out[i]].Expr = h[trigger].Expr}
    IN IF hits = {}
       THEN LET n == New(st.mem, ConsumeTrigger(h[trigger].Annotation, h[trigger].Expr,
                                                h[trigger].Guards, FALSE))
            IN [mem |-> n.mem, out |-> Append(st.out, n.ref)]
       ELSE LET i == CHOOSE j \in hits : \A k \in hits : j <= k
                outTrigger == h[st.out[i]]
                g == Intersection(st.mem, outTrigger.Guards, h[trigger].Guards)
                n == New(g.mem, ConsumeTrigger(outTrigger.Annotation, outTrigger.Expr, g.ref,
                                               outTrigger.GuardMatched /\ h[trigger].GuardMatched))
            IN [mem |-> n.mem, out |-> [st.out EXCEPT ![i] = n.ref]]

\* addToOut as it would be if it matched records on the underlying site of the
\* trigger and on Expr, not on the trigger value.
AddToOutSameSite(st, trigger) ==
    LET h == st.mem.heap
        hits == {i \in 1..Len(st.out) :
                    /\ h[st.out[i]].Annotation.Ann = h[trigger].Annotation.Ann
                    /\ h[st.out[i]].Expr = h[trigger].Expr}
    IN IF hits = {}
       THEN [st EXCEPT !.out = Append(@, trigger)]
       ELSE LET i == CHOOSE j \in hits : \A k \in hits : j <= k
                outTrigger == h[st.out[i]]
                g == Intersection(st.mem, outTrigger.Guards, h[trigger].Guards)
                n == New(g.mem, ConsumeTrigger(outTrigger.Annotation, outTrigger.Expr, g.ref,
                                               outTrigger.GuardMatched /\ h[trigger].GuardMatched))
            IN [mem |-> n.mem, out |-> [st.out EXCEPT ![i] = n.ref]]

\* addToOut as it would be if an unmatched record were put in front of out.
AddToOutPrepend(st, trigger) ==
    LET h == st.mem.heap
        hits == {i \in 1..Len(st.out) :
                    /\ h[st.out[i]].Annotation = h[trigger].Annotation
                    /\ h[st.out[i]].Expr = h[trigger].Expr}
    IN IF hits = {}
       THEN [st EXCEPT !.out = <<trigger>> \o @]
       ELSE LET i == CHOOSE j \in hits : \A k \in hits : j <= k
                outTrigger == h[st.out[i]]
                g == Intersection(st.mem, outTrigger.Guards, h[trigger].Guards)
                n == New(g.mem, ConsumeTrigger(outTrigger.Annotation, outTrigger.Expr, g.ref,
                                               outTrigger.GuardMatched /\ h[trigger].GuardMatched))
            IN [mem |-> n.mem, out |-> [st.out EXCEPT ![i] = n.ref]]

\* addToOut as it would be without the return after a match: the matched
\* record is replaced and the trigger is appended as well.
AddToOutNoReturn(st, trigger) ==
    LET h == st.mem.heap
        hits == {i \in 1..Len(st.out) :
                    /\ h[st.out[i]].Annotation = h[trigger].Annotation
                    /\ h[st.out[i]].Expr = h[trigger].Expr}
    IN IF hits = {}
       THEN [st EXCEPT !.out = Append(@, trigger)]
       ELSE LET i == CHOOSE j \in hits : \A k \in hits : j <= k
                outTrigger == h[st.out[i]]
                g == Intersection(st.mem, outTrigger.Guards, h[trigger].Guards)
                n == New(g.mem, ConsumeTrigger(outTrigger.Annotation, outTrigger.Expr, g.ref,
                                               outTrigger.GuardMatched /\ h[trigger].GuardMatched))
            IN [mem |-> n.mem, out |-> Append([st.out EXCEPT ![i] = n.ref], trigger)]

\* addToOut as it would be if a match kept the guards and GuardMatched of the
\* record already in out.
AddToOutKeepLeft(st, trigger) ==
    LET h == st.mem.heap
        hits == {i \in 1..Len(st.out) :
                    /\ h[st.out[i]].Annotation = h[trigger].Annotation
                    /\ h[st.out[i]].Expr = h[trigger].Expr}
    IN IF hits = {}
       THEN [st EXCEPT !.out = Append(@, trigger)]
       ELSE LET i == CHOOSE j \in hits : \A k \in hits : j <= k
                outTrigger == h[st.out[i]]
                g == Copy(st.mem, outTrigger.Guards)
                n == New(g.mem, ConsumeTrigger(outTrigger.Annotation, outTrigger.Expr, g.ref,
                                               outTrigger.GuardMatched))
            IN [mem |-> n.mem, out |-> [st.out EXCEPT ![i] = n.ref]]

\* The closure addToOut: st is [mem, out], trigger a pointer.  The first
\* record of out with the same Annotation and Expr is replaced by a new
\* record; without one the pointer is appended.
AddToOut(st, trigger) ==
    LET h == st.mem.heap
        hits == {i \in 1..Len(st.out) :
                    /\ h[st.out[i]].Annotation = h[trigger].Annotation
                    /\ h[st.out[i]].Expr = h[trigger].Expr}
    IN IF hits = {}
       THEN [st EXCEPT !.out = Append(@, trigger)]
       ELSE LET i == CHOOSE j \in hits : \A k \in hits : j <= k
                outTrigger == h[st.out[i]]
                g == Intersection(st.mem, outTrigger.Guards, h[trigger].Guards)
                n == New(g.mem, ConsumeTrigger(outTrigger.Annotation, outTrigger.Expr, g.ref,
                                               outTrigger.GuardMatched /\ h[trigger].GuardMatched))
            IN [mem |-> n.mem, out |-> [st.out EXCEPT ![i] = n.ref]]

\* for _, t := range slice { addToOut(t) }, from index i on.
RECURSIVE AddAll(_, _, _)
AddAll(st, slice, i) ==
    IF i > Len(slice) THEN st ELSE AddAll(AddToOut(st, slice[i]), slice, i + 1)

\* MergeConsumeTriggerSlices(l, r): the memory afterwards and the slice out.
MergeConsumeTriggerSlices(mem, l, r) ==
    AddAll(AddAll([mem |-> mem, out |-> << >>], l, 1), r, 1)

\* --------------------------------------------- ConsumeTriggerSliceAsGuarded
\* The loop body as it would be if the new record held only the new nonces.
AsGuardedStepNewOnly(st, trigger, nonces) ==
    LET h == st.mem.heap
        c == NoGuards(st.mem)
        a == Add(c.mem, c.ref, nonces)
        n == New(a.mem, ConsumeTrigger(h[trigger].Annotation, h[trigger].Expr, a.ref, FALSE))
    IN [mem |-> n.mem, out |-> Append(st.out, n.ref)]

\* The loop body as it would be if it copied GuardMatched from the input.
AsGuardedStepKeepMatched(st, trigger, nonces) ==
    LET h == st.mem.heap
        c == Copy(st.mem, h[trigger].Guards)
        a == Add(c.mem, c.ref, nonces)
        n == New(a.mem, ConsumeTrigger(h[trigger].Annotation, h[trigger].Expr, a.ref,
                                       h[trigger].GuardMatched))
    IN [mem |-> n.mem, out |-> Append(st.out, n.ref)]

\* The loop body as it would be if it added the nonces only to a record that
\* already had guards.
AsGuardedStepOnlyIfGuarded(st, trigger, nonces) ==
    LET h == st.mem.heap
        c == Copy(st.mem, h[trigger].Guards)
        a == Add(c.mem, c.ref, IF st.mem.gsets[h[trigger].Guards] = {} THEN {} ELSE nonces)
        n == New(a.mem, ConsumeTrigger(h[trigger].Annotation, h[trigger].Expr, a.ref, FALSE))
    IN [mem |-> n.mem, out |-> Append(st.out, n.ref)]

\* One iteration of the loop: a new record with a copy of the guards to which
\* the nonces are added; GuardMatched is not set and keeps its zero value.
AsGuardedStep(st, trigger, nonces) ==
    LET h == st.mem.heap
        c == Copy(st.mem, h[trigger].Guards)
        a == Add(c.mem, c.ref, nonces)
        n == New(a.mem, ConsumeTrigger(h[trigger].Annotation, h[trigger].Expr, a.ref, FALSE))
    IN [mem |-> n.mem, out |-> Append(st.out, n.ref)]

RECURSIVE AsGuardedFrom(_, _, _, _)
AsGuardedFrom(st, slice, nonces, i) ==
    IF i > Len(slice) THEN st
    ELSE AsGuardedFrom(AsGuardedStep(st, slice[i], nonces), slice, nonces, i + 1)

\* ConsumeTriggerSliceAsGuarded(slice, guards...)
ConsumeTriggerSliceAsGuarded(mem, slice, nonces) ==
    AsGuardedFrom([mem |-> mem, out |-> << >>], slice, nonces, 1)

\* --------------------------------------------------- ConsumeTriggerSlicesEq
\* ConsumeTriggerSlicesEq as it would be if it compared the slices index by
\* index.
ConsumeTriggerSlicesEqPositional(mem, l, r) ==
    IF Len(l) # Len(r) THEN FALSE
    ELSE \A i \in 1..Len(l) : Eq(mem, l[i], r[i])

ConsumeTriggerSlicesEq(mem, l, r) ==
    IF Len(l) # Len(r) THEN FALSE
    ELSE \A i \in 1..Len(l) : \E j \in 1..Len(r) : Eq(mem, l[i], r[j])

\* =================================================================== state
VARIABLES
    heap,      \* every allocated ConsumeTrigger, by pointer
    gsets,     \* every allocated GuardNonceSet, by reference
    left,      \* first argument slice of the call
    right,     \* second argument slice of the call
    guards,    \* the guards... argument of ConsumeTriggerSliceAsGuarded
    out,       \* slice returned by the call
    eq,        \* result returned by ConsumeTriggerSlicesEq
    op,        \* the function that was called, "none" before the call
    calls,     \* number of calls made so far
    trig,      \* receiver of CheckConsume
    annMap,    \* argument of CheckConsume
    consume,   \* result of CheckConsume
    third,     \* a third slice held by the caller
    out2,      \* slice returned by the second way of combining the same slices
    pos        \* result of ConsumeTrigger.Pos

vars == <<heap, gsets, left, right, guards, out, eq, op, calls, trig, annMap, consume,
          third, out2, pos>>

Mem == [heap |-> heap, gsets |-> gsets]

\* Triggers the slice operations are run on: two variants on the same key.
SliceTriggers == {ArgPass(1), VariadicParamAssignDeep(1)}

\* Record values: a ConsumeTrigger with the content of its guard set.
RecVals(nonces) ==
    [Annotation : SliceTriggers, Expr : Exprs, Guards : SUBSET nonces,
     GuardMatched : BOOLEAN]

\* Memory holding one record per value of recs, each with its own guard set.
HeapOf(recs) ==
    [i \in 1..Len(recs) |->
        ConsumeTrigger(recs[i].Annotation, recs[i].Expr, i, recs[i].GuardMatched)]

GSetsOf(recs) == [i \in 1..Len(recs) |-> recs[i].Guards]

NoTrigger == Trigger("none", ConsumeTriggerTautology, NoKey, FALSE, 0)

EmptyMap == [k \in Keys |-> Absent]

\* Nothing called yet, no trigger under evaluation.
Idle ==
    /\ guards = {}
    /\ out = << >>
    /\ eq = FALSE
    /\ op = "none"
    /\ calls = 0
    /\ consume = FALSE
    /\ out2 = << >>
    /\ pos = NoPos

\* Two slices built by the caller over the records recs: the first split
\* records are left, the others right.
Slices(recs, split) ==
    /\ heap = HeapOf(recs)
    /\ gsets = GSetsOf(recs)
    /\ left = [i \in 1..split |-> i]
    /\ right = [i \in 1..(Len(recs) - split) |-> split + i]
    /\ third = << >>

\* Nonces on the records that are merged and compared.
JoinNonces == {1}

\* Arguments of MergeConsumeTriggerSlices: at most MaxRecs records, at most
\* MaxLen in each slice.
Init ==
    /\ \E n \in 0..MaxRecs : \E recs \in [1..n -> RecVals(JoinNonces)] : \E split \in 0..n :
          /\ split <= MaxLen
          /\ n - split <= MaxLen
          /\ Slices(recs, split)
    /\ Idle
    /\ trig = NoTrigger
    /\ annMap = EmptyMap

\* Records that are compared: three obligations, two on the same trigger and
\* two on the same expression.
EqTriggerExprs == {<<ArgPass(1), "x">>, <<ArgPass(1), "y">>, <<VariadicParamAssignDeep(1), "x">>}

EqRecVals ==
    {[Annotation |-> k[1], Expr |-> k[2], Guards |-> g, GuardMatched |-> m] :
        k \in EqTriggerExprs, g \in SUBSET JoinNonces, m \in BOOLEAN}

\* Slices of at most MaxLen records that meet the precondition of
\* ConsumeTriggerSlicesEq: no two records on the same trigger and expression.
EqSlices ==
    UNION {{s \in [1..n -> EqRecVals] :
               \A i, j \in 1..n :
                  (s[i].Annotation = s[j].Annotation /\ s[i].Expr = s[j].Expr) => i = j} :
           n \in 0..MaxLen}

\* Arguments of ConsumeTriggerSlicesEq.
InitEq ==
    /\ \E l \in EqSlices : \E r \in EqSlices : Slices(l \o r, Len(l))
    /\ Idle
    /\ trig = NoTrigger
    /\ annMap = EmptyMap

\* Argument of ConsumeTriggerSliceAsGuarded: a slice of at most MaxLen records.
InitGuard ==
    /\ \E n \in 0..MaxLen : \E recs \in [1..n -> RecVals(Nonces)] : Slices(recs, n)
    /\ Idle
    /\ trig = NoTrigger
    /\ annMap = EmptyMap

\* Receiver and argument of CheckConsume.
InitCheck ==
    /\ Slices(<< >>, 0)
    /\ Idle
    /\ trig \in Triggers
    /\ annMap \in AnnMaps

\* out = MergeConsumeTriggerSlices(left, right)
Merge ==
    /\ op = "none"
    /\ LET res == MergeConsumeTriggerSlices(Mem, left, right)
       IN /\ heap' = res.mem.heap
          /\ gsets' = res.mem.gsets
          /\ out' = res.out
    /\ op' = "merge"
    /\ calls' = calls + 1
    /\ UNCHANGED <<left, right, guards, eq, trig, annMap, consume, third, out2, pos>>

\* out = ConsumeTriggerSliceAsGuarded(left, g...), g among the nonces given
AsGuarded(nonces) ==
    /\ op = "none"
    /\ \E g \in SUBSET nonces :
          LET res == ConsumeTriggerSliceAsGuarded(Mem, left, g)
          IN /\ heap' = res.mem.heap
             /\ gsets' = res.mem.gsets
             /\ out' = res.out
             /\ guards' = g
    /\ op' = "guard"
    /\ calls' = calls + 1
    /\ UNCHANGED <<left, right, eq, trig, annMap, consume, third, out2, pos>>

\* eq = ConsumeTriggerSlicesEq(left, right)
SlicesEq ==
    /\ op = "none"
    /\ eq' = ConsumeTriggerSlicesEq(Mem, left, right)
    /\ op' = "eq"
    /\ calls' = calls + 1
    /\ UNCHANGED <<heap, gsets, left, right, guards, out, trig, annMap, consume, third, out2, pos>>

\* consume = trig.CheckConsume(annMap)
Check ==
    /\ op = "none"
    /\ trig # NoTrigger
    /\ consume' = CheckConsume(trig, annMap)
    /\ op' = "check"
    /\ calls' = calls + 1
    /\ UNCHANGED <<heap, gsets, left, right, guards, out, eq, trig, annMap, third, out2, pos>>

\* Joins of two slices.
Next == Merge

Spec == Init /\ [][Next]_vars

\* Comparisons of two slices.
NextEq == SlicesEq

SpecEq == InitEq /\ [][NextEq]_vars

\* Guard stamping of one slice.
NextGuard == AsGuarded(Nonces)

SpecGuard == InitGuard /\ [][NextGuard]_vars

\* Records the chained calls start from: one trigger on either expression.
ChainRecVals ==
    [Annotation : {ArgPass(1)}, Expr : Exprs, Guards : SUBSET JoinNonces,
     GuardMatched : BOOLEAN]

ChainSlices == {<< >>} \cup {<<r>> : r \in ChainRecVals}

\* Two slices of at most one record each.
InitChain ==
    /\ \E l \in ChainSlices : \E r \in ChainSlices : Slices(l \o r, Len(l))
    /\ Idle
    /\ trig = NoTrigger
    /\ annMap = EmptyMap

\* Backward propagation goes on: the caller keeps the slices it holds and
\* passes two of them, arguments or result, to the next call.
Reuse ==
    /\ op \in {"merge", "guard", "eq"}
    /\ calls < MaxCalls
    /\ \E l \in {left, right, out} : \E r \in {left, right, out} :
          /\ left' = l
          /\ right' = r
    /\ op' = "none"
    /\ out' = << >>
    /\ guards' = {}
    /\ eq' = FALSE
    /\ UNCHANGED <<heap, gsets, calls, trig, annMap, consume, third, out2, pos>>

\* Chains of joins, guard stampings and comparisons.
NextChain == Merge \/ AsGuarded(JoinNonces) \/ SlicesEq \/ Reuse

SpecChain == InitChain /\ [][NextChain]_vars

\* Evaluation of one trigger against one annotation map.
NextCheck == Check

SpecCheck == InitCheck /\ [][NextCheck]_vars

\* One record on any trigger and expression, without guards.
PosRecVals ==
    [Annotation : Triggers, Expr : Exprs, Guards : {{}}, GuardMatched : {FALSE}]

\* Receiver of ConsumeTrigger.Pos.
InitPos ==
    /\ \E r \in PosRecVals : Slices(<<r>>, 1)
    /\ Idle
    /\ trig = NoTrigger
    /\ annMap = EmptyMap

\* pos = left[1].Pos()
Position ==
    /\ op = "none"
    /\ Len(left) = 1
    /\ pos' = Pos(Mem, left[1])
    /\ op' = "pos"
    /\ calls' = calls + 1
    /\ UNCHANGED <<heap, gsets, left, right, guards, out, eq, trig, annMap, consume, third, out2>>

\* Position of one record.
NextPos == Position

SpecPos == InitPos /\ [][NextPos]_vars

\* Triggers that agree or differ in the variant, the key, the named-return
\* flag and the return statement.
VariantTriggers ==
    {ArgPass(1), ArgPass(2), VariadicParamAssignDeep(1),
     Trigger("UseAsReturn", TriggerIfNonNil, 1, TRUE, 1),
     Trigger("UseAsReturn", TriggerIfNonNil, 1, FALSE, 1),
     Trigger("UseAsReturn", TriggerIfNonNil, 1, TRUE, 2)}

\* Records on those triggers: guarded by nonce 1 and matched, or unguarded
\* and unmatched.
VariantRecVals ==
    [Annotation : VariantTriggers, Expr : Exprs, Guards : {{1}}, GuardMatched : {TRUE}]
    \cup [Annotation : VariantTriggers, Expr : Exprs, Guards : {{}}, GuardMatched : {FALSE}]

\* Arguments of MergeConsumeTriggerSlices: one record on the left, two on the
\* right.
InitVariants ==
    /\ \E r1 \in VariantRecVals, r2 \in VariantRecVals, r3 \in VariantRecVals :
          Slices(<<r1, r2, r3>>, 1)
    /\ Idle
    /\ trig = NoTrigger
    /\ annMap = EmptyMap

\* Merging of records on triggers of several variants.
NextVariants == Merge

SpecVariants == InitVariants /\ [][NextVariants]_vars

\* Obligations of the record sets of control-flow paths.
PathKeys == {<<ArgPass(1), "x">>, <<ArgPass(1), "y">>}

PathRecVals(nonces) ==
    {[Annotation |-> k[1], Expr |-> k[2], Guards |-> g, GuardMatched |-> m] :
        k \in PathKeys, g \in SUBSET nonces, m \in BOOLEAN}

\* Record sets of a path: slices of at most len records, no two on the same
\* trigger and expression.
PathSlices(nonces, len) ==
    UNION {{s \in [1..n -> PathRecVals(nonces)] :
               \A i, j \in 1..n :
                  (s[i].Annotation = s[j].Annotation /\ s[i].Expr = s[j].Expr) => i = j} :
           n \in 0..len}

\* Nonces on the records of the second of two paths.
RightNonces == {2}

\* Three slices built by the caller: a is left, b is right, c is third.
Slices3(a, b, c) ==
    /\ heap = HeapOf(a \o b \o c)
    /\ gsets = GSetsOf(a \o b \o c)
    /\ left = [i \in 1..Len(a) |-> i]
    /\ right = [i \in 1..Len(b) |-> Len(a) + i]
    /\ third = [i \in 1..Len(c) |-> Len(a) + Len(b) + i]

\* The record sets of two paths.
InitPair ==
    /\ \E a \in PathSlices(Nonces, MaxLen) : \E b \in PathSlices(RightNonces, MaxLen) :
          Slices3(a, b, << >>)
    /\ Idle
    /\ trig = NoTrigger
    /\ annMap = EmptyMap

\* The record sets of three paths, the third with at most one record.
InitTriple ==
    /\ \E a \in PathSlices(JoinNonces, MaxLen) : \E b \in PathSlices(JoinNonces, MaxLen) :
          \E c \in PathSlices(JoinNonces, 1) : Slices3(a, b, c)
    /\ Idle
    /\ trig = NoTrigger
    /\ annMap = EmptyMap

\* out = MergeConsumeTriggerSlices(left, right)
\* out2 = MergeConsumeTriggerSlices(right, left)
\* eq = ConsumeTriggerSlicesEq(out, out2)
Commute ==
    /\ op = "none"
    /\ LET ab == MergeConsumeTriggerSlices(Mem, left, right)
           ba == MergeConsumeTriggerSlices(ab.mem, right, left)
       IN /\ heap' = ba.mem.heap
          /\ gsets' = ba.mem.gsets
          /\ out' = ab.out
          /\ out2' = ba.out
          /\ eq' = ConsumeTriggerSlicesEq(ba.mem, ab.out, ba.out)
    /\ op' = "commute"
    /\ calls' = calls + 1
    /\ UNCHANGED <<left, right, guards, trig, annMap, consume, third, pos>>

\* out = ConsumeTriggerSliceAsGuarded(MergeConsumeTriggerSlices(left, right), g...)
\* out2 = MergeConsumeTriggerSlices(ConsumeTriggerSliceAsGuarded(left, g...),
\*                                  ConsumeTriggerSliceAsGuarded(right, g...))
\* eq = ConsumeTriggerSlicesEq(out, out2)
Distribute ==
    /\ op = "none"
    /\ \E g \in SUBSET Nonces :
          LET ab == MergeConsumeTriggerSlices(Mem, left, right)
              abg == ConsumeTriggerSliceAsGuarded(ab.mem, ab.out, g)
              ag == ConsumeTriggerSliceAsGuarded(abg.mem, left, g)
              bg == ConsumeTriggerSliceAsGuarded(ag.mem, right, g)
              agbg == MergeConsumeTriggerSlices(bg.mem, ag.out, bg.out)
          IN /\ heap' = agbg.mem.heap
             /\ gsets' = agbg.mem.gsets
             /\ out' = abg.out
             /\ out2' = agbg.out
             /\ eq' = ConsumeTriggerSlicesEq(agbg.mem, abg.out, agbg.out)
             /\ guards' = g
    /\ op' = "distribute"
    /\ calls' = calls + 1
    /\ UNCHANGED <<left, right, trig, annMap, consume, third, pos>>

\* out = MergeConsumeTriggerSlices(MergeConsumeTriggerSlices(left, right), third)
\* out2 = MergeConsumeTriggerSlices(left, MergeConsumeTriggerSlices(right, third))
\* eq = ConsumeTriggerSlicesEq(out, out2)
Associate ==
    /\ op = "none"
    /\ LET ab == MergeConsumeTriggerSlices(Mem, left, right)
           abc == MergeConsumeTriggerSlices(ab.mem, ab.out, third)
           bc == MergeConsumeTriggerSlices(abc.mem, right, third)
           a_bc == MergeConsumeTriggerSlices(bc.mem, left, bc.out)
       IN /\ heap' = a_bc.mem.heap
          /\ gsets' = a_bc.mem.gsets
          /\ out' = abc.out
          /\ out2' = a_bc.out
          /\ eq' = ConsumeTriggerSlicesEq(a_bc.mem, abc.out, a_bc.out)
    /\ op' = "associate"
    /\ calls' = calls + 1
    /\ UNCHANGED <<left, right, guards, trig, annMap, consume, third, pos>>

\* out2 = MergeConsumeTriggerSlices(left, right)
\* out = MergeConsumeTriggerSlices(out2, right)
\* eq = ConsumeTriggerSlicesEq(out, out2)
Remerge ==
    /\ op = "none"
    /\ LET ab == MergeConsumeTriggerSlices(Mem, left, right)
           abb == MergeConsumeTriggerSlices(ab.mem, ab.out, right)
       IN /\ heap' = abb.mem.heap
          /\ gsets' = abb.mem.gsets
          /\ out' = abb.out
          /\ out2' = ab.out
          /\ eq' = ConsumeTriggerSlicesEq(abb.mem, abb.out, ab.out)
    /\ op' = "remerge"
    /\ calls' = calls + 1
    /\ UNCHANGED <<left, right, guards, trig, annMap, consume, third, pos>>

\* The record sets of two paths joined in either order, and stamped before
\* or after the join.
NextPair == Commute \/ Distribute

SpecPair == InitPair /\ [][NextPair]_vars

\* The record sets of three paths joined in either grouping, and a joined
\* set joined again with one of its predecessors.
NextTriple == Associate \/ Remerge

SpecTriple == InitTriple /\ [][NextTriple]_vars

\* ============================================================== properties
\* Reading a record through a pointer p in heap h with guard sets gs.
KeyOf(h, p) == <<h[p].Annotation, h[p].Expr>>

GuardsOf(h, gs, p) == gs[h[p].Guards]

MatchedOf(h, p) == h[p].GuardMatched

\* The matching keys of the records of slice s, and the indices holding key k.
KeysOf(h, s) == {KeyOf(h, s[i]) : i \in DOMAIN s}

Occ(h, s, k) == {i \in DOMAIN s : KeyOf(h, s[i]) = k}

\* The records of slice s with key k, as pointers.
RecsOf(h, s, k) == {s[i] : i \in Occ(h, s, k)}

IntersectAll(S) == {n \in UNION S : \A g \in S : n \in g}

\* No two records of s share a (trigger, siteExpr) key.
NoDuplicates(h, s) ==
    \A i, j \in DOMAIN s : KeyOf(h, s[i]) = KeyOf(h, s[j]) => i = j

\* A step that is a call of MergeConsumeTriggerSlices(left, right).
MergeStep == op = "none" /\ op' = "merge"

\* A step that is a call of ConsumeTriggerSliceAsGuarded(left, guards...).
GuardStep == op = "none" /\ op' = "guard"

\* C1 as stated: for every record of left and every record of right with the
\* same trigger and siteExpr, the one merged record of that obligation has the
\* intersection of the two records' guard sets and the AND of their two
\* guardMatched flags.
C1_AnyPairIntersects ==
    [][MergeStep =>
        \A i \in DOMAIN left : \A j \in DOMAIN right :
            KeyOf(heap, left[i]) = KeyOf(heap, right[j]) =>
                /\ Cardinality(Occ(heap', out', KeyOf(heap, left[i]))) = 1
                /\ \A o \in Occ(heap', out', KeyOf(heap, left[i])) :
                      /\ GuardsOf(heap', gsets', out'[o]) =
                            GuardsOf(heap, gsets, left[i]) \cap GuardsOf(heap, gsets, right[j])
                      /\ MatchedOf(heap', out'[o]) =
                            (MatchedOf(heap, left[i]) /\ MatchedOf(heap, right[j]))]_vars

\* C1 amended: for every obligation with a record in left and a record in
\* right, the one merged record has the intersection of the guard sets of all
\* records of left and right with that trigger and siteExpr, and the AND of
\* all their guardMatched flags; with one such record in each input that is
\* the intersection and the AND of the two.
C1_MergeIntersectsGuards ==
    [][MergeStep =>
        \A k \in KeysOf(heap, left) \cap KeysOf(heap, right) :
            LET ins == RecsOf(heap, left, k) \cup RecsOf(heap, right, k)
            IN /\ Cardinality(Occ(heap', out', k)) = 1
               /\ \A o \in Occ(heap', out', k) :
                     /\ GuardsOf(heap', gsets', out'[o]) =
                           IntersectAll({GuardsOf(heap, gsets, p) : p \in ins})
                     /\ MatchedOf(heap', out'[o]) = (\A p \in ins : MatchedOf(heap, p))
                     /\ (Cardinality(Occ(heap, left, k)) = 1 /\ Cardinality(Occ(heap, right, k)) = 1) =>
                           \A l \in RecsOf(heap, left, k) : \A r \in RecsOf(heap, right, k) :
                              /\ GuardsOf(heap', gsets', out'[o]) =
                                    GuardsOf(heap, gsets, l) \cap GuardsOf(heap, gsets, r)
                              /\ MatchedOf(heap', out'[o]) =
                                    (MatchedOf(heap, l) /\ MatchedOf(heap, r))]_vars

\* A merge has joined a record of left guarded by nonce 1 with a record of
\* right of the same obligation that carries no guard, both marked matched or
\* not, and the merged record carries no guard.
C1_Witness ==
    /\ op = "merge"
    /\ \E i \in DOMAIN left : \E j \in DOMAIN right : \E o \in DOMAIN out :
          /\ KeyOf(heap, left[i]) = KeyOf(heap, right[j])
          /\ KeyOf(heap, out[o]) = KeyOf(heap, left[i])
          /\ Cardinality(Occ(heap, left, KeyOf(heap, left[i]))) = 1
          /\ Cardinality(Occ(heap, right, KeyOf(heap, left[i]))) = 1
          /\ GuardsOf(heap, gsets, left[i]) = {1}
          /\ GuardsOf(heap, gsets, right[j]) = {}
          /\ MatchedOf(heap, left[i]) /\ ~MatchedOf(heap, right[j])
          /\ GuardsOf(heap, gsets, out[o]) = {}
          /\ ~MatchedOf(heap, out[o])

\* C2: after a merge the output holds no two records with the same (trigger,
\* siteExpr) key, its keys are exactly the keys occurring in left or in
\* right, and its length is the number of those distinct keys.
C2_MergeIsKeyUnion ==
    [][MergeStep =>
        /\ NoDuplicates(heap', out')
        /\ KeysOf(heap', out') = KeysOf(heap, left) \cup KeysOf(heap, right)
        /\ Len(out') = Cardinality(KeysOf(heap, left) \cup KeysOf(heap, right))]_vars

\* A merge of a left that repeats a key and a right that holds another key
\* returned two records for the three it was given.
C2_Witness ==
    /\ op = "merge"
    /\ ~NoDuplicates(heap, left)
    /\ KeysOf(heap, left) \cap KeysOf(heap, right) = {}
    /\ KeysOf(heap, right) # {}
    /\ Len(out) = 2
    /\ Len(left) + Len(right) = 3

\* C3 as stated: every record whose key occurs in only one of the two inputs
\* has an output record of that key with the same trigger, siteExpr, guard
\* set and guardMatched.
C3_OneSidedUnchanged ==
    [][MergeStep =>
        \A p \in {left[i] : i \in DOMAIN left} \cup {right[j] : j \in DOMAIN right} :
            (KeyOf(heap, p) \notin KeysOf(heap, left) \cap KeysOf(heap, right)) =>
                \E o \in DOMAIN out' :
                    /\ KeyOf(heap', out'[o]) = KeyOf(heap, p)
                    /\ GuardsOf(heap', gsets', out'[o]) = GuardsOf(heap, gsets, p)
                    /\ MatchedOf(heap', out'[o]) = MatchedOf(heap, p)]_vars

\* C3 amended: a record whose key occurs in only one of the two inputs, and
\* only once there, passes through unchanged: the output holds that very
\* record, with the trigger, siteExpr, guard set and guardMatched it had.
C3_SingleOccurrencePassesThrough ==
    [][MergeStep =>
        \A k \in KeysOf(heap, left) \cup KeysOf(heap, right) :
            Cardinality(Occ(heap, left, k)) + Cardinality(Occ(heap, right, k)) = 1 =>
                \A p \in RecsOf(heap, left, k) \cup RecsOf(heap, right, k) :
                    \E o \in DOMAIN out' :
                        /\ out'[o] = p
                        /\ KeyOf(heap', out'[o]) = KeyOf(heap, p)
                        /\ GuardsOf(heap', gsets', out'[o]) = GuardsOf(heap, gsets, p)
                        /\ MatchedOf(heap', out'[o]) = MatchedOf(heap, p)]_vars

\* A merge has passed through a guarded, matched record that only right held
\* next to an obligation that both inputs held.
C3_Witness ==
    /\ op = "merge"
    /\ \E j \in DOMAIN right : \E o \in DOMAIN out :
          /\ KeyOf(heap, right[j]) \notin KeysOf(heap, left)
          /\ Cardinality(Occ(heap, right, KeyOf(heap, right[j]))) = 1
          /\ out[o] = right[j]
          /\ GuardsOf(heap, gsets, out[o]) = {1}
          /\ MatchedOf(heap, out[o])
    /\ KeysOf(heap, left) \cap KeysOf(heap, right) # {}

\* C4: guard stamping returns one record per input record, in the same order
\* and with the same trigger and siteExpr, whose guard set is the union of
\* the input record's guards and the new guards, hence a superset of the
\* input record's guards.
C4_StampUnitesGuards ==
    [][GuardStep =>
        /\ Len(out') = Len(left)
        /\ \A i \in DOMAIN left :
              /\ KeyOf(heap', out'[i]) = KeyOf(heap, left[i])
              /\ GuardsOf(heap', gsets', out'[i]) = GuardsOf(heap, gsets, left[i]) \cup guards'
              /\ GuardsOf(heap, gsets, left[i]) \subseteq GuardsOf(heap', gsets', out'[i])]_vars

\* Nonce 1 was stamped onto two records, one of them guarded by nonce 2, and
\* that one now carries both.
C4_Witness ==
    /\ op = "guard"
    /\ guards = {1}
    /\ Len(left) = 2
    /\ \E i \in DOMAIN left :
          /\ GuardsOf(heap, gsets, left[i]) = {2}
          /\ GuardsOf(heap, gsets, out[i]) = {1, 2}

CallStep == op = "none" /\ op' \in {"merge", "guard", "eq"}

\* The pointers held by slice s.
Pointers(s) == {s[i] : i \in DOMAIN s}

\* C6: no step changes a field of a record that exists, nor the content of
\* its guard set; a call leaves its argument slices as they were, and every
\* record of its result is either a record that existed, unchanged, or a
\* newly created one.
C6_RecordsImmutable ==
    [][/\ Len(heap') >= Len(heap)
       /\ \A p \in DOMAIN heap :
             /\ heap'[p] = heap[p]
             /\ gsets'[heap[p].Guards] = gsets[heap[p].Guards]
       /\ CallStep =>
             /\ left' = left
             /\ right' = right
             /\ \A o \in DOMAIN out' :
                   out'[o] \in DOMAIN heap \/ out'[o] \in (DOMAIN heap') \ (DOMAIN heap)]_vars

\* In a second call, a merge returned a record its left argument also holds
\* next to a record it created, while left still holds two records.
C6_Witness ==
    /\ op = "merge"
    /\ calls = 2
    /\ Len(left) = 2
    /\ \E o \in DOMAIN out : out[o] \in Pointers(left)
    /\ \E o \in DOMAIN out : out[o] \notin Pointers(left) \cup Pointers(right)

\* All arrangements of slice s.
Perms(n) == {f \in [1..n -> 1..n] : \A i, j \in 1..n : f[i] = f[j] => i = j}

Arrangements(s) == {[i \in 1..Len(s) |-> s[f[i]]] : f \in Perms(Len(s))}

\* C7: on slices without duplicate obligations the comparison is reflexive,
\* symmetric, and gives the same result for every arrangement of either
\* argument.
C7_SlicesEqReflexiveSymmetricOrderFree ==
    (op = "eq" /\ NoDuplicates(heap, left) /\ NoDuplicates(heap, right)) =>
        /\ ConsumeTriggerSlicesEq(Mem, left, left)
        /\ ConsumeTriggerSlicesEq(Mem, right, right)
        /\ ConsumeTriggerSlicesEq(Mem, right, left) = eq
        /\ \A l \in Arrangements(left) : \A r \in Arrangements(right) :
              ConsumeTriggerSlicesEq(Mem, l, r) = eq

\* Two slices of two obligations each, listed in opposite orders, were found
\* equal.
C7_Witness ==
    /\ op = "eq"
    /\ eq
    /\ Len(left) = 2
    /\ NoDuplicates(heap, left)
    /\ NoDuplicates(heap, right)
    /\ KeyOf(heap, left[1]) = KeyOf(heap, right[2])

\* The value of a record: trigger, siteExpr, guard set content, guardMatched.
ValueOf(h, gs, p) == <<h[p].Annotation, h[p].Expr, gs[h[p].Guards], h[p].GuardMatched>>

ValuesOf(h, gs, s) == {ValueOf(h, gs, s[i]) : i \in DOMAIN s}

\* C8: on slices without duplicate obligations the comparison is true iff
\* both hold the same records by trigger, siteExpr, guard set content and
\* guardMatched; it is false whenever the lengths differ.
C8_SlicesEqIffSameRecords ==
    op = "eq" =>
        /\ Len(left) # Len(right) => ~eq
        /\ (NoDuplicates(heap, left) /\ NoDuplicates(heap, right)) =>
              (eq <=> ValuesOf(heap, gsets, left) = ValuesOf(heap, gsets, right))

\* Two slices of one obligation each that differ only in guardMatched were
\* found unequal.
C8_Witness ==
    /\ op = "eq"
    /\ ~eq
    /\ Len(left) = 1
    /\ Len(right) = 1
    /\ KeyOf(heap, left[1]) = KeyOf(heap, right[1])
    /\ GuardsOf(heap, gsets, left[1]) = GuardsOf(heap, gsets, right[1])
    /\ MatchedOf(heap, left[1]) # MatchedOf(heap, right[1])

\* Maps that agree with m on whether key k is found and on field f of its Val.
AgreeingMaps(m, k, f) ==
    {m2 \in AnnMaps : m2[k].present = m[k].present /\ m2[k][f] = m[k][f]}

\* C9: a trigger built on TriggerIfNonNil with key k evaluates to true iff k
\* is found in the map and its Val is not nilable; it is false when k is
\* absent, and the result is the same for every map that agrees on that.
C9_IfNonNilEvaluation ==
    (op = "check" /\ trig.base = TriggerIfNonNil) =>
        /\ consume <=> (annMap[trig.Ann].present /\ ~annMap[trig.Ann].IsNilable)
        /\ ~annMap[trig.Ann].present => ~consume
        /\ \A m2 \in AgreeingMaps(annMap, trig.Ann, "IsNilable") :
              CheckConsume(trig, m2) = consume

\* An ArgPass trigger on key 1 evaluated to true on a map where key 1 is
\* deeply nilable but not nilable and key 2 is absent.
C9_Witness ==
    /\ op = "check"
    /\ trig = ArgPass(1)
    /\ annMap[1] = [present |-> TRUE, IsNilable |-> FALSE, IsDeepNilable |-> TRUE]
    /\ annMap[2] = Absent
    /\ consume

\* C10: a trigger built on TriggerIfDeepNonNil with key k evaluates to true
\* iff k is found in the map and its Val is not deeply nilable; it is false
\* when k is absent, and the result does not depend on IsNilable.
C10_IfDeepNonNilEvaluation ==
    (op = "check" /\ trig.base = TriggerIfDeepNonNil) =>
        /\ consume <=> (annMap[trig.Ann].present /\ ~annMap[trig.Ann].IsDeepNilable)
        /\ ~annMap[trig.Ann].present => ~consume
        /\ \A m2 \in AgreeingMaps(annMap, trig.Ann, "IsDeepNilable") :
              CheckConsume(trig, m2) = consume

\* A SliceAssign trigger on key 2 evaluated to true on a map where key 2 is
\* nilable but not deeply nilable.
C10_Witness ==
    /\ op = "check"
    /\ trig = Trigger("SliceAssign", TriggerIfDeepNonNil, 2, FALSE, 0)
    /\ annMap[2] = [present |-> TRUE, IsNilable |-> TRUE, IsDeepNilable |-> FALSE]
    /\ consume

\* C11: each of the eight always-firing variants evaluates to true on every
\* map, the empty map included, has kind Always and has no underlying site.
C11_TautologyVariantsAlwaysFire ==
    (op = "check" /\ trig.variant \in {"PtrLoad", "MapAccess", "MapWrittenTo", "SliceAccess",
                                       "FldAccess", "ChanAccess", "DeepAssignPrimitive",
                                       "LocalVarAssignDeep"}) =>
        /\ consume
        /\ \A m \in AnnMaps : CheckConsume(trig, m)
        /\ CheckConsume(trig, EmptyMap)
        /\ Kind(trig) = Always
        /\ UnderlyingSite(trig) = NoKey

\* A PtrLoad trigger evaluated to true on the empty map.
C11_Witness ==
    /\ op = "check"
    /\ trig.variant = "PtrLoad"
    /\ annMap = EmptyMap
    /\ consume

\* The variants that carry IsNamedReturn and RetStmt.
NamedReturnVariants ==
    {"UseAsErrorResult", "UseAsReturn", "UseAsNonErrorRetDependentOnErrorRetNilability",
     "UseAsErrorRetWithNilabilityUnknown"}

\* C12: a record on a named-return-producing variant reports the position of
\* the return statement when IsNamedReturn is set and the position of its
\* expression when it is not; a record on any other variant reports the
\* position of its expression.
C12_NamedReturnPosition ==
    op = "pos" =>
        LET c == heap[left[1]]
            t == c.Annotation
        IN IF t.variant \in NamedReturnVariants /\ t.IsNamedReturn
           THEN pos = RetStmtPos(t.RetStmt)
           ELSE pos = ExprPos(c.Expr)

\* A UseAsReturn record built with IsNamedReturn on return statement 2
\* reported that statement's position, not its expression's.
C12_Witness ==
    /\ op = "pos"
    /\ heap[left[1]].Annotation.variant = "UseAsReturn"
    /\ heap[left[1]].Annotation.IsNamedReturn
    /\ heap[left[1]].Annotation.RetStmt = 2
    /\ pos = RetStmtPos(2)
    /\ pos # ExprPos(heap[left[1]].Expr)

\* C13 as stated: only UseAsErrorResult, UseAsReturn and
\* UseAsErrorRetWithNilabilityUnknown override the position; every other
\* variant, UseAsNonErrorRetDependentOnErrorRetNilability included, reports
\* the position of its expression whatever its fields.
C13_ThreeVariantsOverride ==
    (op = "pos" /\ heap[left[1]].Annotation.variant \notin
                      {"UseAsErrorResult", "UseAsReturn", "UseAsErrorRetWithNilabilityUnknown"}) =>
        pos = ExprPos(heap[left[1]].Expr)

\* C13 amended: four variants override the position, the three named and
\* UseAsNonErrorRetDependentOnErrorRetNilability; every other variant reports
\* the position of its expression whatever its fields, and each of the four
\* does override when built with IsNamedReturn.
C13_FourVariantsOverride ==
    op = "pos" =>
        /\ heap[left[1]].Annotation.variant \notin
              {"UseAsErrorResult", "UseAsReturn", "UseAsErrorRetWithNilabilityUnknown",
               "UseAsNonErrorRetDependentOnErrorRetNilability"} =>
                 pos = ExprPos(heap[left[1]].Expr)
        /\ (/\ heap[left[1]].Annotation.variant \in
                  {"UseAsErrorResult", "UseAsReturn", "UseAsErrorRetWithNilabilityUnknown",
                   "UseAsNonErrorRetDependentOnErrorRetNilability"}
            /\ heap[left[1]].Annotation.IsNamedReturn) =>
                 pos # ExprPos(heap[left[1]].Expr)

\* A UseAsNonErrorRetDependentOnErrorRetNilability record built with
\* IsNamedReturn reported the position of its return statement.
C13_Witness ==
    /\ op = "pos"
    /\ heap[left[1]].Annotation.variant = "UseAsNonErrorRetDependentOnErrorRetNilability"
    /\ heap[left[1]].Annotation.IsNamedReturn
    /\ pos = RetStmtPos(heap[left[1]].Annotation.RetStmt)

\* The parts of a record that the claim says make an obligation: the variant
\* tag, the annotation key, the variant's named-return flag and return
\* statement, and the expression.
ObligationOf(h, p) ==
    <<h[p].Annotation.variant, h[p].Annotation.Ann, h[p].Annotation.IsNamedReturn,
      h[p].Annotation.RetStmt, h[p].Expr>>

\* C14: two input records end in the same record of the merge exactly when
\* they agree on variant tag, annotation key, named-return flag, return
\* statement and expression; guards and GuardMatched play no part.
C14_SameObligationIffTriggerAndExpr ==
    op = "merge" =>
        LET in == left \o right
        IN /\ Len(out) = Cardinality({ObligationOf(heap, in[i]) : i \in 1..Len(in)})
           /\ \A i \in 1..Len(in) :
                 \E j \in 1..Len(out) :
                    /\ ObligationOf(heap, out[j]) = ObligationOf(heap, in[i])
                    /\ \A k \in 1..Len(out) :
                          ObligationOf(heap, out[k]) = ObligationOf(heap, in[i]) => k = j

\* ArgPass on key 1 at x, guarded and matched, was merged with an unguarded
\* unmatched ArgPass on key 1 at x and a VariadicParamAssignDeep on key 1 at x:
\* the two ArgPass records became one and the other stayed separate.
C14_Witness ==
    /\ op = "merge"
    /\ Len(left) = 1 /\ Len(right) = 2
    /\ heap[left[1]] = ConsumeTrigger(ArgPass(1), "x", heap[left[1]].Guards, TRUE)
    /\ gsets[heap[left[1]].Guards] = {1}
    /\ heap[right[1]] = ConsumeTrigger(ArgPass(1), "x", heap[right[1]].Guards, FALSE)
    /\ gsets[heap[right[1]].Guards] = {}
    /\ heap[right[2]].Annotation = VariadicParamAssignDeep(1)
    /\ heap[right[2]].Expr = "x"
    /\ Len(out) = 2
    /\ heap[out[1]].Annotation = ArgPass(1)
    /\ out[2] = right[2]

\* The matching keys of slice s in order, and a sequence reduced to the first
\* occurrence of each of its elements.
KeySeq(h, s) == [i \in 1..Len(s) |-> KeyOf(h, s[i])]

RECURSIVE FirstOccurrences(_)
FirstOccurrences(s) ==
    IF s = << >> THEN << >>
    ELSE LET r == FirstOccurrences(SubSeq(s, 1, Len(s) - 1))
             x == s[Len(s)]
         IN IF \E i \in 1..Len(r) : r[i] = x THEN r ELSE Append(r, x)

\* C15: the merge lists the obligations in the order of their first
\* occurrence in left followed by right: those of left first, in the order of
\* left, then those only in right, in the order of right; a matched record
\* stays at the index of its first occurrence.
C15_FirstOccurrenceOrder ==
    [][MergeStep =>
        KeySeq(heap', out') = FirstOccurrences(KeySeq(heap, left \o right))
      ]_vars

\* The second record of right matched the only record of left and a record
\* of another obligation stood before it in right: the merged record is
\* first, the right-only record second.
C15_Witness ==
    /\ op = "merge"
    /\ Len(left) = 1 /\ Len(right) = 2 /\ Len(out) = 2
    /\ KeyOf(heap, right[2]) = KeyOf(heap, left[1])
    /\ KeyOf(heap, right[1]) # KeyOf(heap, left[1])
    /\ KeyOf(heap, out[1]) = KeyOf(heap, left[1])
    /\ out[1] \notin {left[1], right[2]}
    /\ out[2] = right[1]

\* The records that the slices in paths hold for the obligation k.
Contributing(h, paths, k) == UNION {RecsOf(h, s, k) : s \in paths}

\* The record of slice s agrees with the claim: matched only if every
\* contributing record is, a nonce only if every contributing record has it,
\* no guard at all if some contributing record has none.
OnlyWhatAllPathsHave(h, gs, s, paths) ==
    \A i \in 1..Len(s) :
        LET from == Contributing(h, paths, KeyOf(h, s[i]))
        IN /\ from # {}
           /\ MatchedOf(h, s[i]) => \A p \in from : MatchedOf(h, p)
           /\ \A n \in GuardsOf(h, gs, s[i]) : \A p \in from : n \in GuardsOf(h, gs, p)
           /\ (\E p \in from : GuardsOf(h, gs, p) = {}) => GuardsOf(h, gs, s[i]) = {}

\* C16: however the record sets of two or three paths are merged pairwise, the
\* record of an obligation is matched only if the record of every
\* contributing path is, and holds a nonce only if the record of every
\* contributing path holds it; a path without guards on the obligation leaves
\* the merged record without guards.
C16_MergedOnlyWhatAllPathsHave ==
    [][(op = "none" /\ op' \in {"associate", "remerge"}) =>
          LET paths == IF op' = "associate" THEN {left, right, third} ELSE {left, right}
          IN /\ OnlyWhatAllPathsHave(heap', gsets', out', paths)
             /\ OnlyWhatAllPathsHave(heap', gsets', out2', paths)
      ]_vars

\* Three paths held the same obligation, guarded by nonce 1 and matched on
\* the first and the third, unguarded on the second: merged in either
\* grouping the obligation has no guard left.
C16_Witness ==
    /\ op = "associate"
    /\ Len(left) = 1 /\ Len(right) = 1 /\ Len(third) = 1
    /\ KeyOf(heap, left[1]) = KeyOf(heap, right[1])
    /\ KeyOf(heap, third[1]) = KeyOf(heap, right[1])
    /\ GuardsOf(heap, gsets, left[1]) = {1} /\ MatchedOf(heap, left[1])
    /\ GuardsOf(heap, gsets, right[1]) = {} /\ MatchedOf(heap, right[1])
    /\ GuardsOf(heap, gsets, third[1]) = {1} /\ MatchedOf(heap, third[1])
    /\ Len(out) = 1 /\ Len(out2) = 1
    /\ GuardsOf(heap, gsets, out[1]) = {} /\ MatchedOf(heap, out[1])
    /\ GuardsOf(heap, gsets, out2[1]) = {} /\ MatchedOf(heap, out2[1])

\* C17: for duplicate-free A and B, ConsumeTriggerSlicesEq of the merge of A
\* with B and the merge of B with A is true.
C17_MergeCommutes == op = "commute" => eq

\* Two paths held the same two obligations in opposite order and with
\* different guards: the two merges differ in order and are equal.
C17_Witness ==
    /\ op = "commute"
    /\ Len(left) = 2 /\ Len(right) = 2
    /\ KeyOf(heap, left[1]) = KeyOf(heap, right[2])
    /\ KeyOf(heap, left[2]) = KeyOf(heap, right[1])
    /\ GuardsOf(heap, gsets, left[1]) = {1, 2}
    /\ GuardsOf(heap, gsets, right[2]) = {2}
    /\ KeySeq(heap, out) # KeySeq(heap, out2)
    /\ GuardsOf(heap, gsets, out[1]) = {2}
    /\ GuardsOf(heap, gsets, out2[2]) = {2}
    /\ eq

\* C18: for duplicate-free A, B and C, merging A with B and then with C
\* equals merging A with the merge of B and C, and merging the merge of A and
\* B with B again equals the merge of A and B.
C18_MergeAssociativeIdempotent == op \in {"associate", "remerge"} => eq

\* A merge of two paths that share an obligation with different guards was
\* merged again with the second path and stayed equal.
C18_Witness ==
    /\ op = "remerge"
    /\ Len(left) = 2 /\ Len(right) = 1
    /\ KeyOf(heap, left[2]) = KeyOf(heap, right[1])
    /\ GuardsOf(heap, gsets, left[2]) = {1} /\ MatchedOf(heap, left[2])
    /\ GuardsOf(heap, gsets, right[1]) = {} /\ ~MatchedOf(heap, right[1])
    /\ Len(out) = 2 /\ Len(out2) = 2
    /\ out[2] # out2[2]
    /\ eq

\* C20: for duplicate-free A and B and any nonces G, stamping the merge of A
\* and B with G equals merging A stamped with G and B stamped with G.
C20_StampDistributesOverMerge == op = "distribute" => eq

\* Two paths held the same obligation under different guards, 1 and 2; with
\* the stamp 2 both ways end with the guard 2 alone, unmatched.
C20_Witness ==
    /\ op = "distribute"
    /\ guards = {2}
    /\ Len(left) = 1 /\ Len(right) = 2
    /\ KeyOf(heap, left[1]) = KeyOf(heap, right[1])
    /\ GuardsOf(heap, gsets, left[1]) = {1} /\ MatchedOf(heap, left[1])
    /\ GuardsOf(heap, gsets, right[1]) = {2} /\ MatchedOf(heap, right[1])
    /\ Len(out) = 2 /\ Len(out2) = 2
    /\ GuardsOf(heap, gsets, out[1]) = {2} /\ ~MatchedOf(heap, out[1])
    /\ GuardsOf(heap, gsets, out2[1]) = {2} /\ ~MatchedOf(heap, out2[1])
    /\ eq

\* C19: starting from slices without two records on the same trigger and
\* expression, every slice held after any sequence of merges and guard
\* stampings, argument or result, is without two such records.
C19_NoDuplicatesPreserved ==
    /\ NoDuplicates(heap, left)
    /\ NoDuplicates(heap, right)
    /\ NoDuplicates(heap, out)

\* The result of an earlier call, two records long, was merged with a slice
\* holding one of its obligations: the result is still two records long, the
\* matched one built anew.
C19_Witness ==
    /\ calls = 2
    /\ op = "merge"
    /\ Len(left) = 2 /\ Len(right) = 1 /\ Len(out) = 2
    /\ KeyOf(heap, right[1]) = KeyOf(heap, left[2])
    /\ out[1] = left[1]
    /\ out[2] \notin {left[2], right[1]}
    /\ KeyOf(heap, out[1]) # KeyOf(heap, out[2])
====
